---------------------------- MODULE Spec2Model ----------------------------
(***************************************************************************)
(* Model of src/src/main.cpp: the filament-width sensor firmware.          *)
(*                                                                         *)
(* Numbers.  The firmware computes in float; the model computes the same   *)
(* formulas in exact arithmetic on two integer grids:                      *)
(*   - a voltage is an integer number of 1/81900 V.  On this grid one ADC  *)
(*     count (3.3 V / 4095) is exactly 66 units and the default anchors    *)
(*     1.0 V, 1.65 V, 2.3 V are exactly 81900, 135135, 188370 units; the   *)
(*     epsilon 0.0001 V is 8.19 units;                                     *)
(*   - a diameter is an integer number of 1e-5 mm, one decade finer than   *)
(*     the wire format, so that the +0.5 rounding of the encoder is real.  *)
(* An interpolated diameter is rounded down to the grid, which makes       *)
(* format_sensor_data(convert_voltage_to_mm(v)) equal to the exact-real    *)
(* result.  The float32 rounding error itself (about 1e-7 mm) is below the *)
(* grid and is not modelled.                                               *)
(***************************************************************************)
EXTENDS Integers, Sequences, FiniteSets, TLC

VARIABLES
  pc,                  \* position of the main program (main / calibration)
  cal_s,               \* calibration(): loop index s
  cal_p,               \* calibration(): loop index p
  g_calibration_mode,
  calibration_tables,
  sensor1_mm,
  sensor2_mm,
  upd_i,               \* update_buffer(): number of bytes of tx_buffer written so far
  tx_buffer,
  irq_enabled,         \* FALSE once Error_Handler has run __disable_irq()
  i2c_armed,           \* a slave transmit started by HAL_I2C_Slave_Transmit_IT is pending
  xfer_buf,            \* the buffer handed to HAL_I2C_Slave_Transmit_IT
  xfer_size,           \* the size handed to HAL_I2C_Slave_Transmit_IT
  xfer_pos,            \* bytes of the pending transmit already clocked out
  rx,                  \* observer: bytes the host received in its current / last read
  rx_began_after,      \* observer: snapshots whose update_buffer() had completed when that read began
  snaps,               \* observer: encodings of the (sensor1_mm, sensor2_mm) pairs of the cycles so far
  published,           \* observer: snapshots whose update_buffer() has completed
  cycle,               \* observer: number of loop iterations started
  sampled,             \* observer: the ADC counts of the current cycle, -1 before a sample
  cal_log,             \* observer: presses and captures of the calibration() call in progress
  call                 \* function-level checks: the last function application and its result

pvars == <<pc, cal_s, cal_p, g_calibration_mode, calibration_tables, sensor1_mm,
           sensor2_mm, upd_i, tx_buffer, irq_enabled, i2c_armed, xfer_buf,
           xfer_size, xfer_pos>>
ovars == <<rx, rx_began_after, snaps, published, cycle, sampled, cal_log>>
vars == <<pvars, ovars, call>>

-----------------------------------------------------------------------------
(* Collaborator results.                                                   *)

HAL_OK == "HAL_OK"
HAL_ERROR == "HAL_ERROR"
HAL_BUSY == "HAL_BUSY"
HAL_TIMEOUT == "HAL_TIMEOUT"
GPIO_PIN_SET == "GPIO_PIN_SET"
GPIO_PIN_RESET == "GPIO_PIN_RESET"

HalStatus == {HAL_OK, HAL_ERROR, HAL_BUSY}
PollStatus == {HAL_OK, HAL_TIMEOUT}
PinState == {GPIO_PIN_SET, GPIO_PIN_RESET}

\* ADC counts the whole-program specification samples
RawSamples == {0, 4095}

-----------------------------------------------------------------------------
(* Pure functions.                                                         *)

Abs(x) == IF x < 0 THEN -x ELSE x

\* one ADC count in voltage units: 3.3 / 4095 V = 66 / 81900 V
ADC_STEP == 66

\* read_sensor_voltage once HAL_ADC_ConfigChannel has succeeded
ReadVoltage(poll, raw) == IF poll = HAL_OK THEN raw * ADC_STEP ELSE 0

Point(v, d) == [voltage |-> v, diameter_mm |-> d]

DefaultTable == [p \in 0..2 |->
                   CASE p = 0 -> Point(81900, 150000)
                     [] p = 1 -> Point(135135, 175000)
                     [] p = 2 -> Point(188370, 200000)]

DefaultTables == [s \in 0..1 |-> DefaultTable]

\* calibration(): float diameters[] = {1.50f, 1.75f, 2.00f}
diameters == [p \in 0..2 |-> 150000 + 25000 * p]

\* mutant: the guard tests for exact equality only
DegenerateExact(denom) == denom = 0

\* fabs(denom) < 0.0001f, 0.0001 V being 8.19 voltage units
Degenerate(denom) == Abs(denom) * 100 < 819

\* floor(a * b / c) for c > 0, split so that no intermediate product leaves 32 bits
FloorMulDivPos(a, b, c) ==
  LET ah == a \div 1000
      al == a % 1000
      t  == ah * b
      qt == t \div c
      rt == t % c
      u  == 1000 * rt + al * b
  IN  1000 * qt + (u \div c)

\* floor(a * b / c) for c # 0
FloorMulDiv(a, b, c) ==
  IF c > 0 THEN FloorMulDivPos(a, b, c) ELSE FloorMulDivPos(a, -b, -c)

\* one segment of convert_voltage_to_mm: lo, hi are the two anchors of the segment
Segment(voltage, lo, hi) ==
  LET denom == hi.voltage - lo.voltage
  IN  IF Degenerate(denom)
        THEN [mm |-> lo.diameter_mm, divided |-> FALSE, denom |-> denom, lower |-> lo]
        ELSE [mm |-> lo.diameter_mm
                       + FloorMulDiv(hi.diameter_mm - lo.diameter_mm,
                                     voltage - lo.voltage, denom),
              divided |-> TRUE, denom |-> denom, lower |-> lo]

\* mutant: the two segments are swapped
ChosenSegmentSwapped(voltage, table) == IF voltage <= table[1].voltage THEN 1 ELSE 0

\* the anchor index of the segment convert_voltage_to_mm chooses
ChosenSegment(voltage, table) == IF voltage <= table[1].voltage THEN 0 ELSE 1

\* convert_voltage_to_mm on a valid channel, with what it did on the way
ConvertTrace(voltage, table) ==
  LET k == ChosenSegment(voltage, table)
  IN  Segment(voltage, table[k], table[k + 1])

convert_voltage_to_mm(voltage, sensor_idx, tables) ==
  IF sensor_idx >= 2 THEN 175000
  ELSE ConvertTrace(voltage, tables[sensor_idx]).mm

\* mutant: the upper clamp is missing
ClampLowOnly(val) == IF val < 0 THEN 0 ELSE val

\* format_sensor_data: the clamp
Clamp(val) == IF val < 0 THEN 0 ELSE IF val > 999990 THEN 999990 ELSE val

\* mutant: the + 0.5f is missing
FixedPointTruncated(val) == Clamp(val) \div 10

\* format_sensor_data: int_val = (uint32_t)(val * 10000.0f + 0.5f)
FixedPoint(val) == (Clamp(val) + 5) \div 10

Pow10(k) == CASE k = 0 -> 1 [] k = 1 -> 10 [] k = 2 -> 100 [] k = 3 -> 1000 [] k = 4 -> 10000

\* mutant: the % 10 is missing
DigitNoModulo(int_val, j) == int_val \div Pow10(4 - j)

\* format_sensor_data: buf[j] = (int_val / 10^(4-j)) % 10
Digit(int_val, j) == (int_val \div Pow10(4 - j)) % 10

format_sensor_data(val) == [j \in 0..4 |-> Digit(FixedPoint(val), j)]

\* the ten bytes update_buffer() produces from a pair of readings
Encode(s1, s2) ==
  [i \in 0..9 |-> IF i < 5 THEN format_sensor_data(s1)[i]
                  ELSE format_sensor_data(s2)[i - 5]]

ZeroBuffer == [i \in 0..9 |-> 0]

AsSeq(buf) == [i \in 1..10 |-> buf[i - 1]]

NoCall == [fn |-> "none"]

-----------------------------------------------------------------------------
(* The main program.  Every action is one step of main() or calibration();  *)
(* an interrupt can be taken between any two of them.                       *)

\* Error_Handler(): __disable_irq(); while (1) {}
Error_Handler ==
  /\ pc' = "Error_Handler"
  /\ irq_enabled' = FALSE

\* HAL_I2C_Slave_Transmit_IT(&hi2c1, tx_buffer, 10) returning res
Slave_Transmit_IT(res) ==
  IF res = HAL_OK
    THEN /\ i2c_armed' = TRUE
         /\ xfer_buf' = "tx_buffer"
         /\ xfer_size' = 10
         /\ xfer_pos' = 0
    ELSE /\ i2c_armed' = FALSE
         /\ UNCHANGED <<xfer_buf, xfer_size, xfer_pos>>

\* main(): if (HAL_I2C_Slave_Transmit_IT(...) != HAL_OK) Error_Handler();
Main_Arm(res) ==
  /\ pc = "main_arm"
  /\ Slave_Transmit_IT(res)
  /\ IF res = HAL_OK
       THEN pc' = "loop" /\ UNCHANGED irq_enabled
       ELSE Error_Handler
  /\ UNCHANGED <<cal_s, cal_p, g_calibration_mode, calibration_tables,
                 sensor1_mm, sensor2_mm, upd_i, tx_buffer>>

\* main(): first read of the calibration start button
Main_CheckStart(pin) ==
  /\ pc = "loop"
  /\ pc' = IF pin = GPIO_PIN_RESET THEN "debounce" ELSE "measure1"
  /\ UNCHANGED <<cal_s, cal_p, g_calibration_mode, calibration_tables,
                 sensor1_mm, sensor2_mm, upd_i, tx_buffer, irq_enabled,
                 i2c_armed, xfer_buf, xfer_size, xfer_pos>>

\* main(): HAL_Delay(50), second read of the button, entry of calibration()
Main_Debounce(pin) ==
  /\ pc = "debounce"
  /\ IF pin = GPIO_PIN_RESET
       THEN /\ pc' = "cal_wait_press"
            /\ g_calibration_mode' = 1
            /\ cal_s' = 0
            /\ cal_p' = 0
       ELSE /\ pc' = "measure1"
            /\ UNCHANGED <<g_calibration_mode, cal_s, cal_p>>
  /\ UNCHANGED <<calibration_tables, sensor1_mm, sensor2_mm, upd_i, tx_buffer,
                 irq_enabled, i2c_armed, xfer_buf, xfer_size, xfer_pos>>

\* calibration(): while (next button == GPIO_PIN_SET) ...
Cal_PollPress(pin) ==
  /\ pc = "cal_wait_press"
  /\ pc' = IF pin = GPIO_PIN_SET THEN "cal_delay_press" ELSE "cal_record"
  /\ UNCHANGED <<cal_s, cal_p, g_calibration_mode, calibration_tables,
                 sensor1_mm, sensor2_mm, upd_i, tx_buffer, irq_enabled,
                 i2c_armed, xfer_buf, xfer_size, xfer_pos>>

\* calibration(): HAL_Delay(10) inside the wait for the press
Cal_DelayPress ==
  /\ pc = "cal_delay_press"
  /\ pc' = "cal_wait_press"
  /\ UNCHANGED <<cal_s, cal_p, g_calibration_mode, calibration_tables,
                 sensor1_mm, sensor2_mm, upd_i, tx_buffer, irq_enabled,
                 i2c_armed, xfer_buf, xfer_size, xfer_pos>>

\* calibration(): record calibration_tables[s][p] from read_sensor_voltage(s)
Cal_Record(cfg, poll, raw) ==
  /\ pc = "cal_record"
  /\ IF cfg # HAL_OK
       THEN /\ Error_Handler
            /\ UNCHANGED calibration_tables
       ELSE /\ calibration_tables' =
                 [calibration_tables EXCEPT
                    ![cal_s][cal_p] = Point(ReadVoltage(poll, raw), diameters[cal_p])]
            /\ pc' = "cal_wait_release"
            /\ UNCHANGED irq_enabled
  /\ UNCHANGED <<cal_s, cal_p, g_calibration_mode, sensor1_mm, sensor2_mm,
                 upd_i, tx_buffer, i2c_armed, xfer_buf, xfer_size, xfer_pos>>

\* calibration(): while (next button == GPIO_PIN_RESET) ..., then the loop increments
Cal_PollRelease(pin) ==
  /\ pc = "cal_wait_release"
  /\ IF pin = GPIO_PIN_RESET
       THEN /\ pc' = "cal_delay_release"
            /\ UNCHANGED <<cal_s, cal_p, g_calibration_mode>>
       ELSE IF cal_p < 2
         THEN /\ cal_p' = cal_p + 1
              /\ pc' = "cal_wait_press"
              /\ UNCHANGED <<cal_s, g_calibration_mode>>
         ELSE IF cal_s < 1
           THEN /\ cal_s' = cal_s + 1
                /\ cal_p' = 0
                /\ pc' = "cal_wait_press"
                /\ UNCHANGED g_calibration_mode
           ELSE /\ g_calibration_mode' = 0
                /\ cal_s' = 0
                /\ cal_p' = 0
                /\ pc' = "measure1"
  /\ UNCHANGED <<calibration_tables, sensor1_mm, sensor2_mm, upd_i, tx_buffer,
                 irq_enabled, i2c_armed, xfer_buf, xfer_size, xfer_pos>>

\* calibration(): HAL_Delay(10) inside the wait for the release
Cal_DelayRelease ==
  /\ pc = "cal_delay_release"
  /\ pc' = "cal_wait_release"
  /\ UNCHANGED <<cal_s, cal_p, g_calibration_mode, calibration_tables,
                 sensor1_mm, sensor2_mm, upd_i, tx_buffer, irq_enabled,
                 i2c_armed, xfer_buf, xfer_size, xfer_pos>>

\* measure_sensor_values(): sensor 1
Measure1(cfg, poll, raw) ==
  /\ pc = "measure1"
  /\ IF cfg # HAL_OK
       THEN /\ Error_Handler
            /\ UNCHANGED sensor1_mm
       ELSE /\ sensor1_mm' = convert_voltage_to_mm(ReadVoltage(poll, raw), 0,
                                                    calibration_tables)
            /\ pc' = "measure2"
            /\ UNCHANGED irq_enabled
  /\ UNCHANGED <<cal_s, cal_p, g_calibration_mode, calibration_tables,
                 sensor2_mm, upd_i, tx_buffer, i2c_armed, xfer_buf, xfer_size,
                 xfer_pos>>

\* measure_sensor_values(): sensor 2
Measure2(cfg, poll, raw) ==
  /\ pc = "measure2"
  /\ IF cfg # HAL_OK
       THEN /\ Error_Handler
            /\ UNCHANGED <<sensor2_mm, upd_i>>
       ELSE /\ sensor2_mm' = convert_voltage_to_mm(ReadVoltage(poll, raw), 1,
                                                    calibration_tables)
            /\ pc' = "update_buffer"
            /\ upd_i' = 0
            /\ UNCHANGED irq_enabled
  /\ UNCHANGED <<cal_s, cal_p, g_calibration_mode, calibration_tables,
                 sensor1_mm, tx_buffer, i2c_armed, xfer_buf, xfer_size, xfer_pos>>

\* update_buffer(): one byte store of one of its two format_sensor_data calls
update_buffer ==
  /\ pc = "update_buffer"
  /\ tx_buffer' = [tx_buffer EXCEPT ![upd_i] = Encode(sensor1_mm, sensor2_mm)[upd_i]]
  /\ upd_i' = upd_i + 1
  /\ pc' = IF upd_i = 9 THEN "oled" ELSE "update_buffer"
  /\ UNCHANGED <<cal_s, cal_p, g_calibration_mode, calibration_tables,
                 sensor1_mm, sensor2_mm, irq_enabled, i2c_armed, xfer_buf,
                 xfer_size, xfer_pos>>

\* main(): the periodic OLED refresh at the end of the iteration
Main_Oled ==
  /\ pc = "oled"
  /\ pc' = "loop"
  /\ UNCHANGED <<cal_s, cal_p, g_calibration_mode, calibration_tables,
                 sensor1_mm, sensor2_mm, upd_i, tx_buffer, irq_enabled,
                 i2c_armed, xfer_buf, xfer_size, xfer_pos>>

-----------------------------------------------------------------------------
(* The I2C1 interrupts.                                                     *)

\* what the armed transmit puts on the wire for its next byte
WireByte == IF xfer_buf = "tx_buffer" THEN tx_buffer[xfer_pos] ELSE 255

\* I2C1_EV_IRQHandler: the host clocks out the next byte of the pending transmit
I2C1_EV_TxByte ==
  /\ irq_enabled
  /\ i2c_armed
  /\ xfer_pos < xfer_size
  /\ xfer_pos' = xfer_pos + 1
  /\ UNCHANGED <<pc, cal_s, cal_p, g_calibration_mode, calibration_tables,
                 sensor1_mm, sensor2_mm, upd_i, tx_buffer, irq_enabled,
                 i2c_armed, xfer_buf, xfer_size>>

\* HAL_I2C_SlaveTxCpltCallback: the transmit is complete, re-arm
HAL_I2C_SlaveTxCpltCallback(res) ==
  /\ irq_enabled
  /\ i2c_armed
  /\ xfer_pos = xfer_size
  /\ Slave_Transmit_IT(res)
  /\ UNCHANGED <<pc, cal_s, cal_p, g_calibration_mode, calibration_tables,
                 sensor1_mm, sensor2_mm, upd_i, tx_buffer, irq_enabled>>

\* I2C1_ER_IRQHandler, HAL_I2C_ErrorCallback: the transfer is aborted, re-arm
HAL_I2C_ErrorCallback(res) ==
  /\ irq_enabled
  /\ i2c_armed
  /\ Slave_Transmit_IT(res)
  /\ UNCHANGED <<pc, cal_s, cal_p, g_calibration_mode, calibration_tables,
                 sensor1_mm, sensor2_mm, upd_i, tx_buffer, irq_enabled>>

-----------------------------------------------------------------------------
(* The whole program.                                                       *)

InitProgram ==
  /\ pc = "main_arm"
  /\ cal_s = 0
  /\ cal_p = 0
  /\ g_calibration_mode = 0
  /\ calibration_tables = DefaultTables
  /\ sensor1_mm = 175000
  /\ sensor2_mm = 175000
  /\ upd_i = 0
  /\ tx_buffer = ZeroBuffer
  /\ irq_enabled = TRUE
  /\ i2c_armed = FALSE
  /\ xfer_buf = "none"
  /\ xfer_size = 0
  /\ xfer_pos = 0

\* value of the log's sample field when the last capture read no ADC count
NoSample == -1

EmptyLog == [events |-> <<>>, sample |-> NoSample]

InitObserver ==
  /\ rx = <<>>
  /\ rx_began_after = {}
  /\ snaps = {}
  /\ published = {}
  /\ cycle = 0
  /\ sampled = [s \in 0..1 |-> -1]
  /\ cal_log = EmptyLog

Init ==
  /\ InitProgram
  /\ InitObserver
  /\ call = NoCall

\* the observer and the function-level record stay as they are
Quiet == UNCHANGED <<ovars, call>>

\* one step of the main program
MainStep ==
  \/ \E res \in HalStatus : Main_Arm(res)
  \/ \E pin \in PinState : Main_CheckStart(pin)
  \/ \E pin \in PinState : Main_Debounce(pin)
  \/ \E pin \in PinState : Cal_PollPress(pin)
  \/ Cal_DelayPress
  \/ \E cfg \in {HAL_OK, HAL_ERROR}, poll \in PollStatus, raw \in RawSamples :
        Cal_Record(cfg, poll, raw)
  \/ \E pin \in PinState : Cal_PollRelease(pin)
  \/ Cal_DelayRelease
  \/ \E cfg \in {HAL_OK, HAL_ERROR}, poll \in PollStatus, raw \in RawSamples :
        Measure1(cfg, poll, raw)
  \/ \E cfg \in {HAL_OK, HAL_ERROR}, poll \in PollStatus, raw \in RawSamples :
        Measure2(cfg, poll, raw)
  \/ update_buffer
  \/ Main_Oled

Next ==
  \/ (\E res \in HalStatus : Main_Arm(res)) /\ Quiet
  \/ (\E pin \in PinState : Main_CheckStart(pin)) /\ Quiet
  \/ (\E pin \in PinState : Main_Debounce(pin)) /\ Quiet
  \/ (\E pin \in PinState : Cal_PollPress(pin)) /\ Quiet
  \/ Cal_DelayPress /\ Quiet
  \/ (\E cfg \in {HAL_OK, HAL_ERROR}, poll \in PollStatus, raw \in RawSamples :
         Cal_Record(cfg, poll, raw)) /\ Quiet
  \/ (\E pin \in PinState : Cal_PollRelease(pin)) /\ Quiet
  \/ Cal_DelayRelease /\ Quiet
  \/ (\E cfg \in {HAL_OK, HAL_ERROR}, poll \in PollStatus, raw \in RawSamples :
         Measure1(cfg, poll, raw)) /\ Quiet
  \/ (\E cfg \in {HAL_OK, HAL_ERROR}, poll \in PollStatus, raw \in RawSamples :
         Measure2(cfg, poll, raw)) /\ Quiet
  \/ update_buffer /\ Quiet
  \/ Main_Oled /\ Quiet
  \/ I2C1_EV_TxByte /\ Quiet
  \/ (\E res \in HalStatus : HAL_I2C_SlaveTxCpltCallback(res)) /\ Quiet
  \/ (\E res \in HalStatus : HAL_I2C_ErrorCallback(res)) /\ Quiet

Spec == Init /\ [][Next]_vars

\* the main program keeps executing whenever it has a next instruction
FairSpec == Spec /\ WF_vars(MainStep /\ Quiet)

-----------------------------------------------------------------------------
(* The program seen from the host: the same actions, with an observer that  *)
(* records what the host receives and which snapshots exist.  Here nobody   *)
(* presses the calibration button, the ADC delivers every sample, and the   *)
(* run is cut after MaxCycles loop iterations.                              *)

MaxCycles == 2

BusSamples == {7, 1119}

Obs_CheckStart ==
  /\ cycle < MaxCycles
  /\ Main_CheckStart(GPIO_PIN_SET)
  /\ cycle' = cycle + 1
  /\ UNCHANGED <<rx, rx_began_after, snaps, published, sampled, cal_log>>

Obs_Measure2(raw) ==
  /\ Measure2(HAL_OK, HAL_OK, raw)
  /\ snaps' = snaps \cup {AsSeq(Encode(sensor1_mm', sensor2_mm'))}
  /\ UNCHANGED <<rx, rx_began_after, published, cycle, sampled, cal_log>>

Obs_update_buffer ==
  /\ update_buffer
  /\ published' = IF upd_i' = 10 THEN published \cup {AsSeq(tx_buffer')} ELSE published
  /\ UNCHANGED <<rx, rx_began_after, snaps, cycle, sampled, cal_log>>

Obs_TxByte ==
  /\ I2C1_EV_TxByte
  /\ rx' = IF xfer_pos = 0 THEN <<WireByte>> ELSE Append(rx, WireByte)
  /\ rx_began_after' = IF xfer_pos = 0 THEN published ELSE rx_began_after
  /\ UNCHANGED <<snaps, published, cycle, sampled, cal_log>>

NextBus ==
  \/ (\E res \in HalStatus : Main_Arm(res)) /\ Quiet
  \/ Obs_CheckStart /\ UNCHANGED call
  \/ (\E raw \in BusSamples : Measure1(HAL_OK, HAL_OK, raw))
        /\ Quiet
  \/ (\E raw \in BusSamples : Obs_Measure2(raw)) /\ UNCHANGED call
  \/ Obs_update_buffer /\ UNCHANGED call
  \/ Main_Oled /\ Quiet
  \/ Obs_TxByte /\ UNCHANGED call
  \/ (\E res \in HalStatus : HAL_I2C_SlaveTxCpltCallback(res))
        /\ Quiet
  \/ (\E res \in HalStatus : HAL_I2C_ErrorCallback(res))
        /\ Quiet

SpecBus == Init /\ [][NextBus]_vars

-----------------------------------------------------------------------------
(* The main program on an idle bus (the host does not read), with an        *)
(* observer that remembers the ADC count behind each reading.               *)

E2ESamples == {7, 1119}

E2E_Measure1(cfg, poll, raw) ==
  /\ Measure1(cfg, poll, raw)
  /\ sampled' = [sampled EXCEPT ![0] = IF cfg = HAL_OK /\ poll = HAL_OK THEN raw ELSE -1]
  /\ UNCHANGED <<rx, rx_began_after, snaps, published, cycle, cal_log>>

E2E_Measure2(cfg, poll, raw) ==
  /\ Measure2(cfg, poll, raw)
  /\ sampled' = [sampled EXCEPT ![1] = IF cfg = HAL_OK /\ poll = HAL_OK THEN raw ELSE -1]
  /\ UNCHANGED <<rx, rx_began_after, snaps, published, cycle, cal_log>>

NextE2E ==
  \/ (\E res \in HalStatus : Main_Arm(res)) /\ Quiet
  \/ (\E pin \in PinState : Main_CheckStart(pin)) /\ Quiet
  \/ (\E pin \in PinState : Main_Debounce(pin)) /\ Quiet
  \/ (\E pin \in PinState : Cal_PollPress(pin)) /\ Quiet
  \/ Cal_DelayPress /\ Quiet
  \/ (\E cfg \in {HAL_OK, HAL_ERROR}, raw \in E2ESamples :
         Cal_Record(cfg, HAL_OK, raw)) /\ Quiet
  \/ (\E pin \in PinState : Cal_PollRelease(pin)) /\ Quiet
  \/ Cal_DelayRelease /\ Quiet
  \/ (\E cfg \in {HAL_OK, HAL_ERROR}, raw \in E2ESamples :
         E2E_Measure1(cfg, HAL_OK, raw)) /\ UNCHANGED call
  \/ (\E cfg \in {HAL_OK, HAL_ERROR}, raw \in E2ESamples :
         E2E_Measure2(cfg, HAL_OK, raw)) /\ UNCHANGED call
  \/ update_buffer /\ Quiet
  \/ Main_Oled /\ Quiet

SpecE2E == Init /\ [][NextE2E]_vars

-----------------------------------------------------------------------------
(* The whole program, with an observer that logs the calibration() call in  *)
(* progress: every press of the NEXT button that ends the first wait loop,  *)
(* every store into calibration_tables[s][p], and whether the stored        *)
(* voltage came from an ADC count that read_sensor_voltage() read.          *)

\* the other observer variables and the function-level record stay as they are
QuietCal == UNCHANGED <<rx, rx_began_after, snaps, published, cycle, sampled, call>>

LogEvent(ev, s, p) == [ev |-> ev, s |-> s, p |-> p]

\* calibration(): the NEXT button read low ends the wait for the press
Log_PollPress(pin) ==
  /\ Cal_PollPress(pin)
  /\ cal_log' = IF pin = GPIO_PIN_RESET
                  THEN [cal_log EXCEPT
                          !.events = Append(@, LogEvent("press", cal_s, cal_p))]
                  ELSE cal_log

\* calibration(): the two stores into calibration_tables[s][p]; HAL_ADC_GetValue
\* is called only when HAL_ADC_PollForConversion returned HAL_OK
Log_Record(cfg, poll, raw) ==
  /\ Cal_Record(cfg, poll, raw)
  /\ cal_log' = IF cfg = HAL_OK
                  THEN [events |-> Append(cal_log.events,
                                          LogEvent("capture", cal_s, cal_p)),
                        sample |-> IF poll = HAL_OK THEN raw ELSE NoSample]
                  ELSE cal_log

\* calibration(): the log of the call ends when the call returns
Log_PollRelease(pin) ==
  /\ Cal_PollRelease(pin)
  /\ cal_log' = IF pc' = "measure1" THEN EmptyLog ELSE cal_log

NextCal ==
  \/ (\E res \in HalStatus : Main_Arm(res)) /\ Quiet
  \/ (\E pin \in PinState : Main_CheckStart(pin)) /\ Quiet
  \/ (\E pin \in PinState : Main_Debounce(pin)) /\ Quiet
  \/ (\E pin \in PinState : Log_PollPress(pin)) /\ QuietCal
  \/ Cal_DelayPress /\ Quiet
  \/ (\E cfg \in {HAL_OK, HAL_ERROR}, poll \in PollStatus, raw \in RawSamples :
         Log_Record(cfg, poll, raw)) /\ QuietCal
  \/ (\E pin \in PinState : Log_PollRelease(pin)) /\ QuietCal
  \/ Cal_DelayRelease /\ Quiet
  \/ (\E cfg \in {HAL_OK, HAL_ERROR}, poll \in PollStatus, raw \in RawSamples :
         Measure1(cfg, poll, raw)) /\ Quiet
  \/ (\E cfg \in {HAL_OK, HAL_ERROR}, poll \in PollStatus, raw \in RawSamples :
         Measure2(cfg, poll, raw)) /\ Quiet
  \/ update_buffer /\ Quiet
  \/ Main_Oled /\ Quiet
  \/ I2C1_EV_TxByte /\ Quiet
  \/ (\E res \in HalStatus : HAL_I2C_SlaveTxCpltCallback(res)) /\ Quiet
  \/ (\E res \in HalStatus : HAL_I2C_ErrorCallback(res)) /\ Quiet

SpecCal == Init /\ [][NextCal]_vars

-----------------------------------------------------------------------------
(* The pure functions, applied to bounded sets of inputs.                   *)

\* ADC counts used for anchors and inputs
FnRaws == {0, 7, 1119, 1241, 2047, 2854, 4095}

CapturedVoltages == {r * ADC_STEP : r \in FnRaws}

Table3(v0, v1, v2) ==
  [p \in 0..2 |-> Point(IF p = 0 THEN v0 ELSE IF p = 1 THEN v1 ELSE v2, diameters[p])]

\* tables calibration() can leave behind: anchors are captured in the order 0, 1, 2
FnTables ==
  {DefaultTable}
    \cup {Table3(a, 135135, 188370) : a \in CapturedVoltages}
    \cup {Table3(ab[1], ab[2], 188370) : ab \in CapturedVoltages \X CapturedVoltages}
    \cup {Table3(abc[1], abc[2], abc[3]) :
            abc \in CapturedVoltages \X CapturedVoltages \X CapturedVoltages}

\* diameters handed to format_sensor_data, in 1e-5 mm
FormatInputs ==
  {-100000, -1, 0, 4, 5, 14, 15, 111755, 146221, 147000, 175000, 199000,
   999984, 999985, 999990, 999995, 1500000}

InitFn ==
  /\ InitProgram
  /\ InitObserver
  /\ call = NoCall

Apply_calibration(t) ==
  /\ call.fn = "none"
  /\ calibration_tables' = [calibration_tables EXCEPT ![0] = t]
  /\ call' = [fn |-> "calibration"]
  /\ UNCHANGED <<pc, cal_s, cal_p, g_calibration_mode, sensor1_mm, sensor2_mm,
                 upd_i, tx_buffer, irq_enabled, i2c_armed, xfer_buf, xfer_size,
                 xfer_pos>>

Apply_convert_voltage_to_mm(voltage, sensor_idx) ==
  /\ call.fn \in {"none", "calibration"}
  /\ call' = [fn |-> "convert_voltage_to_mm",
              voltage |-> voltage,
              sensor_idx |-> sensor_idx,
              mm |-> convert_voltage_to_mm(voltage, sensor_idx, calibration_tables),
              trace |-> IF sensor_idx >= 2 THEN [divided |-> FALSE]
                        ELSE ConvertTrace(voltage, calibration_tables[sensor_idx])]
  /\ UNCHANGED pvars

Apply_format_sensor_data(val) ==
  /\ call.fn = "none"
  /\ call' = [fn |-> "format_sensor_data", val |-> val, buf |-> format_sensor_data(val)]
  /\ UNCHANGED pvars

NextFn ==
  \/ (\E t \in FnTables : Apply_calibration(t)) /\ UNCHANGED ovars
  \/ (\E r \in FnRaws, i \in 0..2 : Apply_convert_voltage_to_mm(r * ADC_STEP, i))
        /\ UNCHANGED ovars
  \/ (\E val \in FormatInputs : Apply_format_sensor_data(val)) /\ UNCHANGED ovars

SpecFn == InitFn /\ [][NextFn]_vars

-----------------------------------------------------------------------------
(* Claims.                                                                  *)

\* C1: the ten bytes a host receives in one read are never a mix of bytes of
\* two different update_buffer() calls: a completed read that began after
\* the first update_buffer() had finished equals the encoding of the
\* (sensor1_mm, sensor2_mm) pair of one single measurement cycle.
NoTornRead ==
  (Len(rx) = 10 /\ rx_began_after # {}) => rx \in snaps

\* C2: every completed host read, the ones before the first update_buffer()
\* included, returns a snapshot whose measurement cycle (measurement and
\* update_buffer) had completed before the read began.
ReadReflectsCompletedCycle ==
  Len(rx) = 10 => rx \in rx_began_after

\* C3: when HAL_I2C_ErrorCallback returns, a slave transmit of tx_buffer is
\* pending again.
ErrorLeavesArmed ==
  [][(\E res \in HalStatus : HAL_I2C_ErrorCallback(res)) => i2c_armed']_vars

\* C4: once main() has armed the slave, no step of the program enters
\* Error_Handler, whatever the ADC and I2C collaborators return.
NoFatalState ==
  [][pc \notin {"main_arm", "Error_Handler"} => pc' # "Error_Handler"]_vars

\* C5: every iteration of the main loop reaches update_buffer(), whatever the
\* calibration buttons do (an iteration that ends in Error_Handler, the
\* subject of C4, is not held against this claim).
LoopRunsToCompletion ==
  (pc = "loop") ~> (pc \in {"update_buffer", "Error_Handler"})

\* C6: every byte of tx_buffer is a digit 0..9 in every state, and a pending
\* slave transmit always offers the ten bytes of tx_buffer themselves.
TxBufferIsDigits ==
  /\ \A i \in 0..9 : tx_buffer[i] \in 0..9
  /\ i2c_armed => (xfer_buf = "tx_buffer" /\ xfer_size = 10)
  /\ (i2c_armed /\ xfer_pos < xfer_size) => WireByte = tx_buffer[xfer_pos]

\* C6 witness: after a calibration, update_buffer() is between its two
\* format_sensor_data calls while a read is in progress.
TxBufferIsDigitsWitness ==
  /\ pc = "update_buffer"
  /\ upd_i = 5
  /\ calibration_tables # DefaultTables
  /\ i2c_armed
  /\ xfer_pos = 3
  /\ tx_buffer[0] = 1
  /\ tx_buffer[1] = 7

\* C7: format_sensor_data(v) writes the five decimal digits, most significant
\* first, of floor(clamp(v, 0.0, 9.9999) * 10000 + 0.5); below 0.0 that is
\* 00000 and above 9.9999 it is 99999.
EncodeIsRoundedClampedDigits ==
  call.fn = "format_sensor_data" =>
    LET v == call.val
        n == IF v < 0 THEN 0 ELSE IF v > 999990 THEN 99999 ELSE (v + 5) \div 10
    IN  /\ \A j \in 0..4 : call.buf[j] \in 0..9
        /\ call.buf[0] * 10000 + call.buf[1] * 1000 + call.buf[2] * 100
             + call.buf[3] * 10 + call.buf[4] = n
        /\ v < 0 => call.buf = [j \in 0..4 |-> 0]
        /\ v > 999990 => call.buf = [j \in 0..4 |-> 9]

\* C7 witness: encode(15.0) has been computed and is 9,9,9,9,9.
EncodeWitness ==
  /\ call.fn = "format_sensor_data"
  /\ call.val = 1500000
  /\ call.buf = [j \in 0..4 |-> 9]

\* the value at r of the line through the anchors lo and hi (of different voltages)
Line(lo, hi, r) ==
  lo.diameter_mm
    + FloorMulDiv(hi.diameter_mm - lo.diameter_mm, r - lo.voltage,
                  hi.voltage - lo.voltage)

\* the two anchors are at least the epsilon of 0.0001 V apart
Apart(lo, hi) == Abs(hi.voltage - lo.voltage) * 100 >= 819

\* C8 as stated: for every table, the result is on the line through anchors
\* 0 and 1 at or below anchor 1 and on the line through anchors 1 and 2
\* above it, and at exactly anchor 1's voltage it is anchor 1's diameter.
InterpolationOnAnchorLines ==
  (call.fn = "convert_voltage_to_mm" /\ call.sensor_idx < 2) =>
    LET t == calibration_tables[call.sensor_idx]
        r == call.voltage
    IN  /\ (r <= t[1].voltage /\ t[1].voltage # t[0].voltage)
              => call.mm = Line(t[0], t[1], r)
        /\ (r > t[1].voltage /\ t[2].voltage # t[1].voltage)
              => call.mm = Line(t[1], t[2], r)
        /\ r = t[1].voltage => call.mm = t[1].diameter_mm

\* C8 amended: the same, for a chosen segment whose anchors are at least the
\* epsilon apart; at exactly anchor 1's voltage the result is anchor 1's
\* diameter when anchors 0 and 1 are that far apart, and the line through
\* anchors 1 and 2 passes through the same value.
InterpolationOnNonDegenerateSegments ==
  (call.fn = "convert_voltage_to_mm" /\ call.sensor_idx < 2) =>
    LET t == calibration_tables[call.sensor_idx]
        r == call.voltage
    IN  /\ (r <= t[1].voltage /\ Apart(t[0], t[1])) => call.mm = Line(t[0], t[1], r)
        /\ (r > t[1].voltage /\ Apart(t[1], t[2])) => call.mm = Line(t[1], t[2], r)
        /\ (r = t[1].voltage /\ Apart(t[0], t[1])) => call.mm = t[1].diameter_mm
        /\ (r = t[1].voltage /\ Apart(t[1], t[2]))
              => Line(t[1], t[2], r) = t[1].diameter_mm

\* C8 witness: a conversion at exactly the voltage of a captured anchor 1.
InterpolationWitness ==
  /\ call.fn = "convert_voltage_to_mm"
  /\ call.sensor_idx = 0
  /\ calibration_tables[0] = Table3(7 * ADC_STEP, 1119 * ADC_STEP, 4095 * ADC_STEP)
  /\ call.voltage = 1119 * ADC_STEP
  /\ call.mm = 175000

\* C9: when the anchors of the chosen segment are equal within the epsilon,
\* convert_voltage_to_mm returns the lower anchor's diameter without
\* dividing; it never divides by zero.
DegenerateSegmentReturnsLowerAnchor ==
  (call.fn = "convert_voltage_to_mm" /\ call.sensor_idx < 2) =>
    LET t == calibration_tables[call.sensor_idx]
        k == IF call.voltage <= t[1].voltage THEN 0 ELSE 1
    IN  /\ ~Apart(t[k], t[k + 1])
              => (call.mm = t[k].diameter_mm /\ ~call.trace.divided)
        /\ call.trace.divided => call.trace.denom # 0

\* C9 witness: a conversion on a fully captured table whose anchors 1 and 2
\* were captured from the same ADC count.
DegenerateWitness ==
  /\ call.fn = "convert_voltage_to_mm"
  /\ call.sensor_idx = 0
  /\ calibration_tables[0] = Table3(7 * ADC_STEP, 1119 * ADC_STEP, 1119 * ADC_STEP)
  /\ call.voltage = 4095 * ADC_STEP
  /\ call.trace.denom = 0
  /\ call.mm = 175000

\* C10 as stated: with the default tables and no calibration, a count of 7
\* on channel 0 gives 1.47 mm and bytes 0..4 = 1,4,7,0,0, and a count of
\* 1119 on channel 1 gives 1.99 mm and bytes 5..9 = 1,9,9,0,0.
EndToEndAsSpecified ==
  (pc = "oled" /\ calibration_tables = DefaultTables) =>
    /\ sampled[0] = 7 =>
         /\ sensor1_mm = 147000
         /\ [j \in 0..4 |-> tx_buffer[j]] = [j \in 0..4 |-> <<1, 4, 7, 0, 0>>[j + 1]]
    /\ sampled[1] = 1119 =>
         /\ sensor2_mm = 199000
         /\ [j \in 0..4 |-> tx_buffer[5 + j]] = [j \in 0..4 |-> <<1, 9, 9, 0, 0>>[j + 1]]

\* C10 amended: with the default tables (1.0 V, 1.50), (1.65 V, 1.75),
\* (2.3 V, 2.00) and no calibration, a count of 7 on channel 0 gives
\* 1.1176 mm (rounded to 0.0001) and bytes 0..4 = 1,1,1,7,6, and a count of
\* 1119 on channel 1 gives 1.4622 mm and bytes 5..9 = 1,4,6,2,2.
EndToEndDefaultTable ==
  (pc = "oled" /\ calibration_tables = DefaultTables) =>
    /\ sampled[0] = 7 =>
         /\ (sensor1_mm + 5) \div 10 = 11176
         /\ [j \in 0..4 |-> tx_buffer[j]] = [j \in 0..4 |-> <<1, 1, 1, 7, 6>>[j + 1]]
    /\ sampled[1] = 1119 =>
         /\ (sensor2_mm + 5) \div 10 = 14622
         /\ [j \in 0..4 |-> tx_buffer[5 + j]] = [j \in 0..4 |-> <<1, 4, 6, 2, 2>>[j + 1]]

\* C10 witness: the first measurement cycle has sampled 7 and 1119 and
\* update_buffer() has completed.
EndToEndWitness ==
  /\ pc = "oled"
  /\ calibration_tables = DefaultTables
  /\ sampled[0] = 7
  /\ sampled[1] = 1119
  /\ tx_buffer[3] = 7
  /\ tx_buffer[6] = 4

\* the presses and captures of one calibration() call, in the order of its loops:
\* channel 0 low, nominal, high, then channel 1 low, nominal, high
CaptureSequence ==
  [k \in 1..12 |-> LogEvent(IF k % 2 = 1 THEN "press" ELSE "capture",
                            ((k - 1) \div 2) \div 3, ((k - 1) \div 2) % 3)]

\* the log of the call in progress is a prefix of CaptureSequence: one capture
\* after each press, in the fixed order
CapturesInOrder ==
  /\ Len(cal_log.events) <= 12
  /\ \A k \in 1..Len(cal_log.events) : cal_log.events[k] = CaptureSequence[k]

\* the capture that has just been logged, if the last event is a capture
JustCaptured == cal_log.events # <<>> /\ cal_log.events[Len(cal_log.events)].ev = "capture"

LastEvent == cal_log.events[Len(cal_log.events)]

\* a step writes the tables only as a capture step, and a capture step
\* overwrites exactly calibration_tables[s][p], with diameters[p], and leaves
\* the other five anchors and tx_buffer as they are
CaptureWritesOneAnchor ==
  /\ calibration_tables' # calibration_tables =>
       /\ pc = "cal_record"
       /\ cal_log'.events # cal_log.events
  /\ (cal_log'.events # cal_log.events /\ JustCaptured') =>
       /\ LastEvent' = LogEvent("capture", cal_s, cal_p)
       /\ \A s \in 0..1, p \in 0..2 :
            <<s, p>> # <<cal_s, cal_p>> =>
              calibration_tables'[s][p] = calibration_tables[s][p]
       /\ calibration_tables'[cal_s][cal_p].diameter_mm = diameters[cal_p]
       /\ tx_buffer' = tx_buffer

\* the anchor just captured holds the voltage of an ADC count that was read
CapturedFromSample ==
  JustCaptured =>
    /\ cal_log.sample # NoSample
    /\ calibration_tables[LastEvent.s][LastEvent.p].voltage = cal_log.sample * ADC_STEP

\* the anchor just captured holds the voltage of the ADC count that was read,
\* or 0.0 V when HAL_ADC_PollForConversion did not return HAL_OK
CapturedFromReadSensorVoltage ==
  JustCaptured =>
    calibration_tables[LastEvent.s][LastEvent.p].voltage =
      IF cal_log.sample # NoSample THEN cal_log.sample * ADC_STEP ELSE 0

\* C11: the calibration tables are written only by calibration(), one anchor
\* per press of the NEXT button, in the order channel 0 low, nominal, high,
\* then channel 1 low, nominal, high; each capture overwrites exactly
\* calibration_tables[s][p], with the voltage of one ADC sample of channel s
\* and the diameter 1.50, 1.75 or 2.00 for p = 0, 1, 2, and leaves the other
\* five anchors and tx_buffer unchanged; the measurement cycle and the bus
\* callbacks never write the tables.
CalibrationFrameEffect ==
  [][CaptureWritesOneAnchor /\ CapturesInOrder' /\ CapturedFromSample']_vars

\* C11 without its sample clause: the same frame and order, the stored voltage
\* being whatever read_sensor_voltage(s) returned, 0.0 V after a conversion
\* timeout included.
CalibrationFrameEffectOfCode ==
  [][CaptureWritesOneAnchor /\ CapturesInOrder' /\ CapturedFromReadSensorVoltage']_vars

\* C11: a calibration() call has captured its sixth anchor from a full-scale
\* sample, after capturing channel 0's low anchor at 0 V.
CalibrationFrameWitness ==
  /\ pc = "cal_wait_release"
  /\ Len(cal_log.events) = 12
  /\ cal_log.sample = 4095
  /\ calibration_tables[1][2] = Point(4095 * ADC_STEP, 200000)
  /\ calibration_tables[0][0] = Point(0, 150000)
  /\ calibration_tables[0][1] = Point(4095 * ADC_STEP, 175000)

=============================================================================
